---------------------------- MODULE Spec2Model ----------------------------
(***************************************************************************)
(* Model of the remote-auth ext-auth plugin                                 *)
(* (plugins/remote_auth/pkg/impl.go): GetAuthService builds a               *)
(* RemoteAuthService from a Config; Authorize forwards the allow-listed     *)
(* request headers to the remote authorizer with one HTTP GET, decides on   *)
(* the status code and projects the JSON body onto response headers.        *)
(*                                                                          *)
(* Go strings that the code only compares or copies are TLA+ strings.       *)
(* Request header names are sequences of one-character strings, because     *)
(* http.Header.Add rewrites them character by character.                    *)
(***************************************************************************)
EXTENDS Integers, Sequences, FiniteSets, TLC

VARIABLES svc, config, calls, arg, ret

vars == <<svc, config, calls, arg, ret>>

---------------------------------------------------------------------------
(* Bounds of the model *)

\* longest JSON array the stringifier is given
MaxArrLen == 2
\* number of Authorize calls that may be in progress on one service
NumCalls == 2

---------------------------------------------------------------------------
(* Decoded JSON values: what encoding/json puts into interface{}, tagged   *)
(* with the reflect.Kind that stringifyValue switches on.  Every value has *)
(* the same record shape; the fields a kind does not use stay at their     *)
(* zero value.                                                             *)

JV(k, b, n, s, a) == [k |-> k, b |-> b, n |-> n, s |-> s, a |-> a]
JBool(b)  == JV("bool", b, 0, "", <<>>)
JFloat(n) == JV("float", FALSE, n, "", <<>>)
JInt(n)   == JV("int", FALSE, n, "", <<>>)
JUint(n)  == JV("uint", FALSE, n, "", <<>>)
JStr(s)   == JV("string", FALSE, 0, s, <<>>)
JArr(a)   == JV("slice", FALSE, 0, "", a)
JObj      == JV("map", FALSE, 0, "", <<>>)
JNull     == JV("invalid", FALSE, 0, "", <<>>)

\* a *string: nil, or a pointer to s
Nil    == [ok |-> FALSE, s |-> ""]
Ptr(s) == [ok |-> TRUE, s |-> s]

---------------------------------------------------------------------------
(* fmt.Sprintf("%v", ...) and strings.Join *)

Digit(d) ==
    CASE d = 0 -> "0" [] d = 1 -> "1" [] d = 2 -> "2" [] d = 3 -> "3"
      [] d = 4 -> "4" [] d = 5 -> "5" [] d = 6 -> "6" [] d = 7 -> "7"
      [] d = 8 -> "8" [] d = 9 -> "9"

\* the decimal digits of n >= 0, most significant first
RECURSIVE DigitsOf(_)
DigitsOf(n) == IF n < 10 THEN <<n>> ELSE Append(DigitsOf(n \div 10), n % 10)

RECURSIVE DigitStr(_)
DigitStr(ds) == IF ds = <<>> THEN "" ELSE Digit(Head(ds)) \o DigitStr(Tail(ds))

\* %v of a bool
FmtBool(b) == IF b THEN "true" ELSE "false"

\* %v of an int64 (v.Int()) or uint64 (v.Uint())
FmtInt(n) == IF n < 0 THEN "-" \o DigitStr(DigitsOf(0 - n)) ELSE DigitStr(DigitsOf(n))

RECURSIVE StripZeros(_)
StripZeros(ds) ==
    IF Len(ds) > 1 /\ ds[Len(ds)] = 0 THEN StripZeros(SubSeq(ds, 1, Len(ds) - 1)) ELSE ds

\* %v of a float64 holding the whole number n >= 0: %g with the shortest
\* representation, which switches to exponent form at exponent >= 6
FmtFloat(n) ==
    LET ds  == DigitsOf(n)
        exp == Len(ds) - 1
        m   == StripZeros(ds)
        e   == IF exp < 10 THEN "0" \o DigitStr(<<exp>>) ELSE DigitStr(DigitsOf(exp))
    IN  IF exp < 6
          THEN DigitStr(ds)
          ELSE Digit(Head(m))
                 \o (IF Len(m) > 1 THEN "." \o DigitStr(Tail(m)) ELSE "")
                 \o "e+" \o e

\* strings.Join(arr, sep)
RECURSIVE Join(_, _)
Join(arr, sep) ==
    IF arr = <<>> THEN ""
    ELSE IF Len(arr) = 1 THEN arr[1]
    ELSE arr[1] \o sep \o Join(Tail(arr), sep)

---------------------------------------------------------------------------
(* stringifyValue *)

\* the array branch's loop, from index i on: append *s for every element whose
\* stringification s is not nil
RECURSIVE stringifyValue(_), stringifyElems(_, _)
stringifyElems(a, i) ==
    IF i > Len(a) THEN <<>>
    ELSE LET s == stringifyValue(a[i])
         IN  (IF s.ok THEN <<s.s>> ELSE <<>>) \o stringifyElems(a, i + 1)

\* variant: an array with an element that does not stringify is nil as a whole
stringifyStrict(raw) ==
    CASE raw.k = "bool"   -> Ptr(FmtBool(raw.b))
      [] raw.k = "int"    -> Ptr(FmtInt(raw.n))
      [] raw.k = "uint"   -> Ptr(FmtInt(raw.n))
      [] raw.k = "float"  -> Ptr(FmtFloat(raw.n))
      [] raw.k = "string" -> Ptr(raw.s)
      [] raw.k = "slice"  ->
           IF \A i \in DOMAIN raw.a : stringifyValue(raw.a[i]).ok
             THEN Ptr(Join(stringifyElems(raw.a, 1), ","))
             ELSE Nil
      [] OTHER            -> Nil

stringifyValue(raw) ==
    CASE raw.k = "bool"   -> Ptr(FmtBool(raw.b))
      [] raw.k = "int"    -> Ptr(FmtInt(raw.n))
      [] raw.k = "uint"   -> Ptr(FmtInt(raw.n))
      [] raw.k = "float"  -> Ptr(FmtFloat(raw.n))
      [] raw.k = "string" -> Ptr(raw.s)
      [] raw.k = "slice"  -> Ptr(Join(stringifyElems(raw.a, 1), ","))
      [] OTHER            -> Nil

---------------------------------------------------------------------------
(* Go maps and their iteration *)

\* a nil or empty map[string]interface{}
EmptyData == [x \in {} |-> JNull]

\* the orders in which a range over a map with key set S may visit the keys
Orders(S) ==
    {o \in [1..Cardinality(S) -> S] : \A i, j \in DOMAIN o : o[i] = o[j] => i = j}

---------------------------------------------------------------------------
(* json.NewDecoder(authzBody).Decode(&data), data a map[string]interface{}. *)
(* A body is the JSON text the remote sent, by the shape of its first      *)
(* value: an object (with its fields), the literal null (which decodes to  *)
(* a nil map without error), another value (an array, a string, a number:  *)
(* an UnmarshalTypeError) or text that is not JSON (a SyntaxError).        *)

Body(shape, fields) == [shape |-> shape, fields |-> fields]

Decode(body) ==
    CASE body.shape = "object" -> [err |-> FALSE, data |-> body.fields]
      [] body.shape = "null"   -> [err |-> FALSE, data |-> EmptyData]
      [] OTHER                 -> [err |-> TRUE, data |-> EmptyData]

---------------------------------------------------------------------------
(* extractResponseHeaders *)

HeaderValueOption(key, value) == [Key |-> key, Value |-> value]

\* variant: the emitted header is keyed by the attribute, not by the header
\* name the map gives for it
RECURSIVE extractLoopKeyedByAttribute(_, _, _, _)
extractLoopKeyedByAttribute(data, attributesToHeadersMap, order, i) ==
    IF i > Len(order) THEN <<>>
    ELSE LET attribute == order[i]
             value     == IF attribute \in DOMAIN data
                            THEN stringifyValue(data[attribute])
                            ELSE Nil
         IN  (IF attribute \in DOMAIN data /\ value.ok
                THEN <<HeaderValueOption(attribute, value.s)>>
                ELSE <<>>)
               \o extractLoopKeyedByAttribute(data, attributesToHeadersMap, order, i + 1)

\* the range loop over attributesToHeadersMap, visiting the keys in order
\* from position i on
RECURSIVE extractLoop(_, _, _, _)
extractLoop(data, attributesToHeadersMap, order, i) ==
    IF i > Len(order) THEN <<>>
    ELSE LET attribute == order[i]
             header    == attributesToHeadersMap[attribute]
             value     == IF attribute \in DOMAIN data
                            THEN stringifyValue(data[attribute])
                            ELSE Nil
         IN  (IF attribute \in DOMAIN data /\ value.ok
                THEN <<HeaderValueOption(header, value.s)>>
                ELSE <<>>)
               \o extractLoop(data, attributesToHeadersMap, order, i + 1)

extractResponseHeaders(authzBody, attributesToHeadersMap, order) ==
    LET d == Decode(authzBody)
    IN  IF d.err
          THEN [headers |-> <<>>, err |-> TRUE]
          ELSE [headers |-> extractLoop(d.data, attributesToHeadersMap, order, 1),
                err |-> FALSE]

---------------------------------------------------------------------------
(* http.Header.Add: the key is stored in canonical MIME form              *)
(* (textproto.CanonicalMIMEHeaderKey) and the value appended to the        *)
(* key's list of values.                                                   *)

Upper(c) ==
    CASE c = "a" -> "A" [] c = "b" -> "B" [] c = "x" -> "X" [] OTHER -> c

Lower(c) ==
    CASE c = "A" -> "a" [] c = "B" -> "b" [] c = "X" -> "x" [] OTHER -> c

\* validHeaderFieldByte, on the characters of the model
validHeaderFieldByte(c) == c \notin {" ", ":", "(", ")"}

\* a key with a byte that is not a token byte is returned unchanged; otherwise
\* the first letter and every letter after a hyphen are upper-cased and the
\* others lower-cased
CanonicalMIMEHeaderKey(s) ==
    IF \E i \in DOMAIN s : ~validHeaderFieldByte(s[i])
      THEN s
      ELSE [i \in DOMAIN s |->
              IF i = 1 \/ s[i - 1] = "-" THEN Upper(s[i]) ELSE Lower(s[i])]

EmptyHeader == [k \in {} |-> <<>>]

HeaderAdd(h, key, value) ==
    LET k == CanonicalMIMEHeaderKey(key)
    IN  IF k \in DOMAIN h
          THEN [h EXCEPT ![k] = Append(@, value)]
          ELSE (k :> <<value>>) @@ h

---------------------------------------------------------------------------
(* forwardAllowedHeaders *)

\* variant: every inbound header is added, allow-listed or not
RECURSIVE forwardEveryHeader(_, _, _, _, _)
forwardEveryHeader(h, headers, ForwardRequestHeaders, order, i) ==
    IF DOMAIN headers = {} THEN h
    ELSE LET key == CHOOSE k \in DOMAIN headers : TRUE
         IN  forwardEveryHeader(HeaderAdd(h, key, headers[key]),
                                [k \in DOMAIN headers \ {key} |-> headers[k]],
                                ForwardRequestHeaders, order, i)

\* the range loop over c.ForwardRequestHeaders, visiting the keys in order
\* from position i on, adding to the outbound request's Header h
RECURSIVE forwardLoop(_, _, _, _, _)
forwardLoop(h, headers, ForwardRequestHeaders, order, i) ==
    IF i > Len(order) THEN h
    ELSE LET key == order[i]
             h2  == IF ForwardRequestHeaders[key] /\ key \in DOMAIN headers
                      THEN HeaderAdd(h, key, headers[key])
                      ELSE h
         IN  forwardLoop(h2, headers, ForwardRequestHeaders, order, i + 1)

forwardAllowedHeaders(remoteHeader, headers, ForwardRequestHeaders, order) ==
    forwardLoop(remoteHeader, headers, ForwardRequestHeaders, order, 1)

---------------------------------------------------------------------------
(* GetAuthService *)

Config(url, fwd, rid, resp) ==
    [AuthUrl |-> url, ForwardRequestHeaders |-> fwd,
     RequestIdHeader |-> rid, ResponseHeaders |-> resp]

GetAuthService(cfg) ==
    [AuthUrl                |-> cfg.AuthUrl,
     ForwardRequestHeaders  |->
        [v \in {cfg.ForwardRequestHeaders[i] : i \in DOMAIN cfg.ForwardRequestHeaders}
           |-> TRUE],
     AttributesToHeadersMap |-> cfg.ResponseHeaders,
     RequestIdHeader        |-> cfg.RequestIdHeader]

\* extractRequestId: nil when no header is configured or the request lacks it
extractRequestId(RequestIdHeader, headers) ==
    IF RequestIdHeader = <<>> THEN Nil
    ELSE IF RequestIdHeader \notin DOMAIN headers THEN Nil
    ELSE Ptr(headers[RequestIdHeader])

---------------------------------------------------------------------------
(* Input universes *)

\* finite sequences over S of length at most n
SeqsUpTo(S, n) == UNION {[1..m -> S] : m \in 0..n}

Scalars ==
    {JBool(TRUE), JBool(FALSE),
     JFloat(0), JFloat(123456), JFloat(1000000), JFloat(1234567),
     JInt(0 - 5), JUint(7),
     JStr(""), JStr("admin"), JStr("user"), JStr("a,b"),
     JObj, JNull}

\* elements of the arrays of arrays
Nested ==
    {JStr("user"), JNull, JArr(<<>>), JArr(<<JStr("admin"), JStr("user")>>),
     JArr(<<JNull>>), JArr(<<JObj, JStr("admin")>>)}

JsonValues ==
    Scalars \cup {JArr(a) : a \in SeqsUpTo(Scalars, MaxArrLen)}
            \cup {JArr(a) : a \in SeqsUpTo(Nested, MaxArrLen)}

\* the result of a function that has not been applied yet / has returned v
Pending     == [done |-> FALSE, v |-> <<>>]
Returned(v) == [done |-> TRUE, v |-> v]

\* request header names
xa == <<"x", "-", "a">>
XA == <<"X", "-", "A">>
nb == <<"b">>
NB == <<"B">>
HeaderNames == {xa, XA, nb, NB}

\* maps from a subset of K to V
PartialMaps(K, V) == UNION {[D -> V] : D \in SUBSET K}

ScenarioBody ==
    Body("object",
         [a \in {"userid", "isserver", "roles"} |->
            CASE a = "userid"   -> JStr("123456")
              [] a = "isserver" -> JBool(TRUE)
              [] a = "roles"    -> JArr(<<JStr("admin"), JStr("user")>>)])

ScenarioMap ==
    [a \in {"userid", "isserver", "roles", "not-present"} |->
       CASE a = "userid"      -> "x-auth-subject-id"
         [] a = "isserver"    -> "x-auth-server-access"
         [] a = "roles"       -> "x-auth-roles"
         [] a = "not-present" -> "x-auth-not-present"]

---------------------------------------------------------------------------
(* The service and calls that the specifications of the pure functions      *)
(* leave alone                                                              *)

Calls == 1..NumCalls

NoRequest  == [method |-> "", url |-> "", ctx |-> "", Header |-> EmptyHeader]
NoResponse == [status |-> 0, body |-> Body("", EmptyData)]
NoResult   == [resp |-> "nil", headers |-> <<>>, err |-> ""]

IdleCall ==
    [pc |-> "Idle", ctx |-> "live", headers |-> EmptyHeader, requestId |-> Nil,
     request |-> NoRequest, sent |-> 0, inflight |-> FALSE, doErr |-> "",
     cancelledInFlight |-> FALSE,
     response |-> NoResponse, bodyRead |-> FALSE, bodyClosed |-> FALSE,
     result |-> NoResult]

ZeroConfig == Config("", <<>>, <<>>, [h \in {} |-> ""])

PureInit ==
    /\ config = ZeroConfig
    /\ svc = GetAuthService(ZeroConfig)
    /\ calls = [c \in Calls |-> IdleCall]
    /\ ret = Pending

---------------------------------------------------------------------------
(* SpecStringify: stringifyValue applied to every value of JsonValues, and  *)
(* extractResponseHeaders to the body whose attribute roles has that value, *)
(* under the mapping roles -> x-auth-roles                                  *)

InitStringify == PureInit /\ arg \in JsonValues

RolesMap == [a \in {"roles"} |-> "x-auth-roles"]

StringifyStep ==
    /\ ~ret.done
    /\ ret' = [done     |-> TRUE,
               v        |-> stringifyValue(arg),
               injected |-> extractResponseHeaders(
                               Body("object", [a \in {"roles"} |-> arg]),
                               RolesMap, <<"roles">>).headers]
    /\ UNCHANGED <<svc, config, calls, arg>>

NextStringify == StringifyStep

SpecStringify == InitStringify /\ [][NextStringify]_vars

---------------------------------------------------------------------------
(* SpecExtract: extractResponseHeaders applied to bodies and mappings *)

ExtractValues ==
    {JStr("123456"), JBool(TRUE), JFloat(1234567), JNull,
     JArr(<<JStr("admin"), JStr("user")>>), JArr(<<JObj>>)}

ExtractBodies ==
    {Body("object", f) : f \in PartialMaps({"userid", "roles"}, ExtractValues)}
      \cup {ScenarioBody, Body("null", EmptyData), Body("array", EmptyData),
            Body("malformed", EmptyData)}

ExtractMaps ==
    PartialMaps({"userid", "roles", "not-present"},
                {"x-auth-subject-id", "x-auth-roles"})
      \cup {ScenarioMap}

InitExtract ==
    /\ PureInit
    /\ arg \in [body : ExtractBodies, map : ExtractMaps]

ExtractStep ==
    /\ ~ret.done
    /\ \E order \in Orders(DOMAIN arg.map) :
         ret' = Returned(extractResponseHeaders(arg.body, arg.map, order))
    /\ UNCHANGED <<svc, config, calls, arg>>

NextExtract == ExtractStep

SpecExtract == InitExtract /\ [][NextExtract]_vars

---------------------------------------------------------------------------
(* SpecForward: forwardAllowedHeaders applied to inbound headers and        *)
(* allow-lists, on the empty Header of a new request                        *)

InitForward ==
    /\ PureInit
    /\ arg \in [headers : PartialMaps(HeaderNames, {"v1", "v2"}),
                fwd : {[k \in A |-> TRUE] : A \in SUBSET HeaderNames}]

ForwardStep ==
    /\ ~ret.done
    /\ \E order \in Orders(DOMAIN arg.fwd) :
         ret' = Returned(forwardAllowedHeaders(EmptyHeader, arg.headers, arg.fwd, order))
    /\ UNCHANGED <<svc, config, calls, arg>>

NextForward == ForwardStep

SpecForward == InitForward /\ [][NextForward]_vars

---------------------------------------------------------------------------
(* Authorize.  A call is the activation record of one Authorize             *)
(* invocation: its position pc, the caller's context ctx, the inbound       *)
(* headers of authzRequest, the locals request, response and the returned   *)
(* pair result, and what the HTTP client did for it (sent, inflight,        *)
(* bodyRead, bodyClosed).                                                   *)

StatusOK == 200

\* variant: every 2xx status counts as success
IsSuccess2xx(status) == status \in 200..299

\* response.StatusCode != 200 is the deny test
IsOK(status) == status = StatusOK

\* api.UnauthenticatedResponse(), nil
UnauthenticatedResponse == [resp |-> "Unauthenticated", headers |-> <<>>, err |-> ""]

\* api.AuthorizedResponse() with OkResponse.Headers = responseHeaders, nil
AuthorizedResponse(responseHeaders) ==
    [resp |-> "Authorized", headers |-> responseHeaders, err |-> ""]

\* return nil, err; the errors of the model are "parse url" (NewRequest),
\* "network" and "context canceled" (Do) and "decode" (the JSON decoder)
ErrorReturn(err) == [resp |-> "nil", headers |-> <<>>, err |-> err]

\* url.Parse inside http.NewRequestWithContext rejects these
UnparsableUrls == {":bad"}

\* variant: http.NewRequest, whose request carries the background context
NewRequestDetached(ctx, method, url) ==
    IF url \in UnparsableUrls
      THEN [err |-> TRUE, req |-> NoRequest]
      ELSE [err |-> FALSE,
            req |-> [method |-> method, url |-> url, ctx |-> "background",
                     Header |-> EmptyHeader]]

\* http.NewRequestWithContext(ctx, method, url, nil): the request carries the
\* context it was given and an empty Header
NewRequestWithContext(ctx, method, url) ==
    IF url \in UnparsableUrls
      THEN [err |-> TRUE, req |-> NoRequest]
      ELSE [err |-> FALSE,
            req |-> [method |-> method, url |-> url, ctx |-> ctx,
                     Header |-> EmptyHeader]]

\* the context of request r is done: the caller's context was cancelled or
\* its deadline fired, and r was built with it
RequestCtxDone(call) == call.request.ctx = "caller" /\ call.ctx = "cancelled"

\* variant: one request object is kept and reused, so a call's Header starts
\* from the headers an earlier call added
BuildRequestReused(cs, s, c, order) ==
    LET r    == NewRequestWithContext("caller", "GET", s.AuthUrl)
        used == {d \in DOMAIN cs : cs[d].request # NoRequest}
        seed == IF used = {} THEN r.req.Header
                ELSE cs[CHOOSE d \in used : TRUE].request.Header
    IN  IF r.err
          THEN [cs EXCEPT ![c].pc = "Error",
                          ![c].result = ErrorReturn("parse url")]
          ELSE [cs EXCEPT ![c].pc = "AwaitResponse",
                          ![c].request =
                              [r.req EXCEPT !.Header =
                                  forwardAllowedHeaders(seed, cs[c].headers,
                                                        s.ForwardRequestHeaders, order)],
                          ![c].sent = @ + 1,
                          ![c].inflight = TRUE]

\* lines 86-92: build the request, add the forwarded headers, hand it to
\* httpClient.Do, which sends it
BuildRequestStep(cs, s, c, order) ==
    LET r == NewRequestWithContext("caller", "GET", s.AuthUrl)
    IN  IF r.err
          THEN [cs EXCEPT ![c].pc = "Error",
                          ![c].result = ErrorReturn("parse url")]
          ELSE [cs EXCEPT ![c].pc = "AwaitResponse",
                          ![c].request =
                              [r.req EXCEPT !.Header =
                                  forwardAllowedHeaders(r.req.Header, cs[c].headers,
                                                        s.ForwardRequestHeaders, order)],
                          ![c].sent = @ + 1,
                          ![c].inflight = TRUE]

\* variant: a failed Do sends the call back to build and send again
DoFailedRetries(call, err) ==
    [call EXCEPT !.pc = "BuildRequest", !.inflight = FALSE, !.doErr = err]

\* lines 93-96: Do returned the error err
DoFailed(call, err) ==
    [call EXCEPT !.pc = "Error", !.inflight = FALSE, !.doErr = err,
                 !.result = ErrorReturn(err)]

\* variant: an undecodable body denies
DecodeFailedDenies(call) ==
    [call EXCEPT !.pc = "Denied", !.result = UnauthenticatedResponse]

\* lines 104-107: extractResponseHeaders returned an error
DecodeFailed(call) ==
    [call EXCEPT !.pc = "Error", !.result = ErrorReturn("decode")]

\* lines 98-119: Do returned resp; nothing closes resp.Body on any path
HandleResponse(call, s, resp, order) ==
    LET got == [call EXCEPT !.response = resp, !.inflight = FALSE]
    IN  IF ~IsOK(resp.status)
          THEN [got EXCEPT !.pc = "Denied", !.result = UnauthenticatedResponse]
          ELSE LET x    == extractResponseHeaders(resp.body, s.AttributesToHeadersMap,
                                                  order)
                   read == [got EXCEPT !.bodyRead = TRUE]
               IN  IF x.err
                     THEN DecodeFailed(read)
                     ELSE [read EXCEPT !.pc = "Allowed",
                                       !.result = AuthorizedResponse(x.headers)]

Terminal(call) == call.pc \in {"Allowed", "Denied", "Error"}

\* the bound on requests per call that keeps a retrying variant finite
MaxSent == 3

InitWith(Cfgs) ==
    /\ config \in Cfgs
    /\ svc = GetAuthService(config)
    /\ calls = [c \in Calls |-> IdleCall]
    /\ arg = <<>>
    /\ ret = Pending

\* the proxy calls Authorize(ctx, authzRequest) with inbound headers from H
Call(c, H) ==
    /\ calls[c].pc = "Idle"
    /\ \E h \in H : calls' = [calls EXCEPT ![c].pc = "Start", ![c].headers = h]
    /\ UNCHANGED <<svc, config, arg, ret>>

\* lines 81-84: the logger gets the request id, if any
Begin(c) ==
    /\ calls[c].pc = "Start"
    /\ calls' = [calls EXCEPT
                   ![c].pc = "BuildRequest",
                   ![c].requestId = extractRequestId(svc.RequestIdHeader, calls[c].headers)]
    /\ UNCHANGED <<svc, config, arg, ret>>

BuildRequest(c) ==
    /\ calls[c].pc = "BuildRequest"
    /\ calls[c].sent < MaxSent
    /\ \E order \in Orders(DOMAIN svc.ForwardRequestHeaders) :
         calls' = BuildRequestStep(calls, svc, c, order)
    /\ UNCHANGED <<svc, config, arg, ret>>

\* the network fails: Do returns an error
DoError(c) ==
    /\ calls[c].pc = "AwaitResponse"
    /\ calls' = [calls EXCEPT ![c] = DoFailed(@, "network")]
    /\ UNCHANGED <<svc, config, arg, ret>>

\* the caller cancels ctx or its deadline fires
CtxCancel(c) ==
    /\ calls[c].pc \in {"Start", "BuildRequest", "AwaitResponse"}
    /\ calls[c].ctx = "live"
    /\ calls' = [calls EXCEPT
                   ![c].ctx = "cancelled",
                   ![c].cancelledInFlight = (calls[c].pc = "AwaitResponse")]
    /\ UNCHANGED <<svc, config, arg, ret>>

\* the request's context is done: the client abandons the request and Do
\* returns the context's error
DoCancelled(c) ==
    /\ calls[c].pc = "AwaitResponse"
    /\ RequestCtxDone(calls[c])
    /\ calls' = [calls EXCEPT ![c] = DoFailed(@, "context canceled")]
    /\ UNCHANGED <<svc, config, arg, ret>>

\* the remote answers with a response from R, unless the request's context is
\* done; the body is decoded in an order of the attribute map's keys
Respond(c, R) ==
    /\ calls[c].pc = "AwaitResponse"
    /\ ~RequestCtxDone(calls[c])
    /\ \E resp \in R, order \in Orders(DOMAIN svc.AttributesToHeadersMap) :
         calls' = [calls EXCEPT ![c] = HandleResponse(@, svc, resp, order)]
    /\ UNCHANGED <<svc, config, arg, ret>>

---------------------------------------------------------------------------
(* Spec: NumCalls concurrent Authorize calls on one service *)

GoodUrl == "http://auth.local/check"

\* the configuration surface as section 6 of the design describes it: outbound
\* header name -> remote attribute name
SurfaceMap == [h \in {"x-auth-subject-id"} |-> "userid"]

SmallMap == [a \in {"userid", "roles"} |->
               IF a = "userid" THEN "x-auth-subject-id" ELSE "x-auth-roles"]

Configs ==
    {Config(GoodUrl, <<xa, XA>>, xa, SmallMap),
     Config(GoodUrl, <<>>, <<>>, SurfaceMap),
     Config(":bad", <<xa>>, <<>>, SmallMap)}

Inbound == {EmptyHeader, (xa :> "v1"), (xa :> "v1") @@ (XA :> "v2") @@ (nb :> "v3")}

Responses ==
    {[status |-> 403, body |-> ScenarioBody],
     [status |-> 200, body |-> ScenarioBody],
     [status |-> 200, body |-> Body("malformed", EmptyData)],
     [status |-> 500, body |-> Body("malformed", EmptyData)]}

Init == InitWith(Configs)

Next ==
    \E c \in Calls :
        \/ Call(c, Inbound)
        \/ Begin(c)
        \/ BuildRequest(c)
        \/ DoError(c)
        \/ CtxCancel(c)
        \/ DoCancelled(c)
        \/ Respond(c, Responses)

Spec == Init /\ [][Next]_vars

---------------------------------------------------------------------------
(* SpecOne: one Authorize call, over every configuration, inbound header    *)
(* set, status and body of the larger universes                             *)

ConfigsOne ==
    {Config(u, f, r, m) :
        u \in {GoodUrl, ":bad"},
        f \in {<<>>, <<xa>>, <<xa, XA, xa>>},
        r \in {<<>>, xa},
        m \in {ScenarioMap, SurfaceMap, [h \in {} |-> ""]}}

InboundOne == PartialMaps({xa, XA, nb}, {"v1"})

Statuses == {200, 201, 204, 302, 403, 500}

BodiesOne ==
    {ScenarioBody,
     Body("object", [a \in {"userid"} |-> JStr("123456")]),
     Body("object", [a \in {"x-auth-subject-id"} |-> JStr("zzz")]),
     Body("object", [a \in {"userid", "roles"} |->
                       IF a = "userid" THEN JNull ELSE JArr(<<JStr("admin"), JObj>>)]),
     Body("object", EmptyData),
     Body("null", EmptyData),
     Body("array", EmptyData),
     Body("malformed", EmptyData)}

ResponsesOne == [status : Statuses, body : BodiesOne]

InitOne == InitWith(ConfigsOne)

NextOne ==
    \/ Call(1, InboundOne)
    \/ Begin(1)
    \/ BuildRequest(1)
    \/ DoError(1)
    \/ CtxCancel(1)
    \/ DoCancelled(1)
    \/ Respond(1, ResponsesOne)

SpecOne == InitOne /\ [][NextOne]_vars

---------------------------------------------------------------------------
(* Claims about the pure functions *)

\* the strings the array branch keeps: the stringifications, in order, of the
\* elements that stringify
RECURSIVE KeptStrings(_)
KeptStrings(a) ==
    IF a = <<>> THEN <<>>
    ELSE LET s == stringifyValue(Head(a))
         IN  (IF s.ok THEN <<s.s>> ELSE <<>>) \o KeptStrings(Tail(a))

\* supported in the sense of section 4.1: a bool, a number, a string, or an
\* array all of whose elements are supported
RECURSIVE Supported(_)
Supported(v) ==
    \/ v.k \in {"bool", "int", "uint", "float", "string"}
    \/ v.k = "slice" /\ \A i \in DOMAIN v.a : Supported(v.a[i])

Emitting(data, map) ==
    {a \in DOMAIN map : a \in DOMAIN data /\ stringifyValue(data[a]).ok}

\* the number of positions of seq that hold x
Count(seq, x) == Cardinality({i \in DOMAIN seq : seq[i] = x})

\* C3: whatever the iteration order, extractResponseHeaders of a body that decodes
\* emits exactly one (header name, stringified value) pair per mapping entry
\* whose attribute is present in the body with a value that stringifies, and
\* nothing else; the body and mapping of TestExtractHeaders give exactly the test's
\* three headers
C3_ExactlyThePresentSupported ==
    (ret.done /\ ~ret.v.err) =>
        LET data == Decode(arg.body).data
            em   == Emitting(data, arg.map)
            pair(a) == HeaderValueOption(arg.map[a], stringifyValue(data[a]).s)
            hs   == ret.v.headers
        IN  /\ Len(hs) = Cardinality(em)
            /\ \A a \in em : Count(hs, pair(a)) = Cardinality({b \in em : pair(b) = pair(a)})
            /\ \A i \in DOMAIN hs : \E a \in em : hs[i] = pair(a)
            /\ (arg.body = ScenarioBody /\ arg.map = ScenarioMap) =>
                  {hs[i] : i \in DOMAIN hs} =
                     {HeaderValueOption("x-auth-subject-id", "123456"),
                      HeaderValueOption("x-auth-server-access", "true"),
                      HeaderValueOption("x-auth-roles", "admin,user")}

\* the test's body and mapping were extracted, with the roles header first
C3_Witness ==
    /\ ret.done
    /\ arg.body = ScenarioBody
    /\ arg.map = ScenarioMap
    /\ Len(ret.v.headers) = 3
    /\ ret.v.headers[1].Key = "x-auth-roles"

\* the inbound headers that are allow-listed
Selected == DOMAIN arg.fwd \cap DOMAIN arg.headers

\* C4 as stated: the outbound headers are exactly the inbound headers whose
\* name is a member of the allow-list, under that name and with the inbound
\* value; the outbound names are a subset of the allow-list, equal to it iff
\* every allow-listed header is present inbound, and none when the allow-list
\* is empty
C4_ExactlyTheAllowListed ==
    ret.done =>
        /\ DOMAIN ret.v = Selected
        /\ \A k \in Selected : ret.v[k] = <<arg.headers[k]>>
        /\ DOMAIN ret.v \subseteq DOMAIN arg.fwd
        /\ (DOMAIN ret.v = DOMAIN arg.fwd) <=> (DOMAIN arg.fwd \subseteq DOMAIN arg.headers)
        /\ DOMAIN arg.fwd = {} => ret.v = EmptyHeader

CanonicalNames(K) == {CanonicalMIMEHeaderKey(k) : k \in K}

\* C4 as amended: the outbound headers are exactly the inbound headers whose
\* name is a case-sensitive member of the allow-list, each with its inbound
\* value under the canonical MIME form of its name, names with one canonical
\* form sharing an entry; the outbound names are a subset of the canonical forms
\* of the allow-list, equal to it when every allow-listed header is present
\* inbound, and none when the allow-list is empty
C4_AllowListedCanonical ==
    ret.done =>
        /\ DOMAIN ret.v = CanonicalNames(Selected)
        /\ \A n \in DOMAIN ret.v :
              LET from == {k \in Selected : CanonicalMIMEHeaderKey(k) = n}
              IN  /\ Len(ret.v[n]) = Cardinality(from)
                  /\ \A k \in from :
                        Count(ret.v[n], arg.headers[k]) =
                           Cardinality({j \in from : arg.headers[j] = arg.headers[k]})
        /\ xa \in Selected => XA \in DOMAIN ret.v
        /\ (nb \in Selected /\ NB \notin Selected) => ret.v[NB] = <<arg.headers[nb]>>
        /\ DOMAIN ret.v \subseteq CanonicalNames(DOMAIN arg.fwd)
        /\ (DOMAIN arg.fwd \subseteq DOMAIN arg.headers) =>
              DOMAIN ret.v = CanonicalNames(DOMAIN arg.fwd)
        /\ DOMAIN arg.fwd = {} => ret.v = EmptyHeader

\* x-a and X-A, both allow-listed and inbound, were forwarded as one X-A entry
\* while b, inbound too, was not allow-listed
C4_Witness ==
    /\ ret.done
    /\ DOMAIN arg.fwd = {xa, XA}
    /\ DOMAIN arg.headers = {xa, XA, nb}
    /\ arg.headers[xa] # arg.headers[XA]
    /\ DOMAIN ret.v = {XA}
    /\ Len(ret.v[XA]) = 2

---------------------------------------------------------------------------
(* SpecLive: SpecOne with the HTTP client's guarantee that a request whose  *)
(* context is done is abandoned                                             *)

SpecLive == InitOne /\ [][NextOne]_vars /\ WF_vars(DoCancelled(1))

---------------------------------------------------------------------------
(* Claims about Authorize *)

Received(k) == k.response # NoResponse

Failed(k) ==
    \/ k.pc = "Error" /\ k.request = NoRequest
    \/ k.doErr # ""
    \/ Received(k) /\ k.response.status = 200
         /\ k.response.body.shape \notin {"object", "null"}

C6_ConfigIsInverted ==
    \A c \in Calls :
        LET k    == calls[c]
            data == Decode(k.response.body).data
            hs   == k.result.headers
            from(h) == config.ResponseHeaders[h]
            emits(h) == from(h) \in DOMAIN data /\ stringifyValue(data[from(h)]).ok
            pair(h) == HeaderValueOption(h, stringifyValue(data[from(h)]).s)
        IN  k.pc = "Allowed" =>
               /\ \A h \in DOMAIN config.ResponseHeaders :
                     emits(h) => \E i \in DOMAIN hs : hs[i] = pair(h)
               /\ \A i \in DOMAIN hs :
                     \E h \in DOMAIN config.ResponseHeaders : emits(h) /\ hs[i] = pair(h)

\* C10: a call that received a response has closed the response's body by the
\* time it returns, on the Denied, the error and the Allowed exit
C10_BodyClosedOnReturn ==
    \A c \in Calls :
        (Terminal(calls[c]) /\ Received(calls[c])) => calls[c].bodyClosed

\* the moves of a call's position that the state machine allows
Moves ==
    {<<"Idle", "Start">>, <<"Start", "BuildRequest">>,
     <<"BuildRequest", "AwaitResponse">>, <<"BuildRequest", "Error">>,
     <<"AwaitResponse", "Allowed">>, <<"AwaitResponse", "Denied">>,
     <<"AwaitResponse", "Error">>}

C7Inv ==
    \A c \in Calls :
        LET k == calls[c]
        IN  /\ k.sent <= 1
            /\ k.pc \in {"Idle", "Start", "BuildRequest"} =>
                  (k.sent = 0 /\ k.request = NoRequest)
            /\ k.pc \in {"AwaitResponse", "Allowed", "Denied"} => k.sent = 1
            /\ k.pc = "Error" => k.sent = (IF k.request = NoRequest THEN 0 ELSE 1)
            /\ k.sent = 1 => (k.request.method = "GET" /\ k.request.url = config.AuthUrl)
            /\ k.result.resp # "nil" => (Received(k) /\ k.sent = 1)
            /\ Received(k) => k.sent = 1
            /\ Terminal(k) <=> k.result # NoResult

C7Step ==
    \A c \in Calls :
        /\ calls'[c].pc # calls[c].pc => <<calls[c].pc, calls'[c].pc>> \in Moves
        /\ calls'[c].sent =
              calls[c].sent
                + (IF calls[c].pc = "BuildRequest" /\ calls'[c].pc = "AwaitResponse"
                     THEN 1 ELSE 0)
        /\ Terminal(calls[c]) => calls'[c] = calls[c]

AloneResult(resp, order) ==
    LET m == GetAuthService(config).AttributesToHeadersMap
        x == extractResponseHeaders(resp.body, m, order)
    IN  IF resp.status # 200 THEN UnauthenticatedResponse
        ELSE IF x.err THEN ErrorReturn("decode")
        ELSE AuthorizedResponse(x.headers)

C8Inv ==
    /\ svc = GetAuthService(config)
    /\ \A c \in Calls :
          LET k   == calls[c]
              fwd == GetAuthService(config).ForwardRequestHeaders
          IN  /\ k.request # NoRequest =>
                    \E order \in Orders(DOMAIN fwd) :
                       k.request.Header =
                          forwardAllowedHeaders(EmptyHeader, k.headers, fwd, order)
              /\ Received(k) =>
                    \E order \in Orders(DOMAIN GetAuthService(config).AttributesToHeadersMap) :
                       k.result = AloneResult(k.response, order)
              /\ (Terminal(k) /\ ~Received(k)) => k.result.resp = "nil"

C8Step ==
    /\ svc' = svc
    /\ \A c \in Calls : calls[c].pc # "Idle" => calls'[c].headers = calls[c].headers

\* C8: under every interleaving of the calls, each call's outbound headers are
\* those its own inbound headers give and its outcome the one its own response
\* gives, as when it runs alone; no step writes the service's fields or a
\* started call's inbound headers
C8_CallsAreIndependent == []C8Inv /\ [][C8Step]_vars

\* two calls with different inbound headers ended differently
C8_Witness ==
    \E c, d \in Calls :
        /\ calls[c].pc = "Allowed"
        /\ calls[d].pc = "Denied"
        /\ calls[c].headers = EmptyHeader
        /\ DOMAIN calls[d].request.Header # {}

C9Safe ==
    \A c \in Calls :
        LET k == calls[c]
        IN  k.cancelledInFlight =>
               /\ k.pc \in {"AwaitResponse", "Error"}
               /\ ~Received(k)
               /\ k.pc = "Error" =>
                     (~k.inflight /\ k.result.resp = "nil" /\ k.result.err # "")

\* C9: once the caller's context is done while a call awaits the response, no
\* response is taken any more, the request does not stay in flight, and the
\* call ends with an error and no verdict
C9_CancelPropagates ==
    /\ []C9Safe
    /\ \A c \in Calls :
          calls[c].cancelledInFlight ~> (calls[c].pc = "Error" /\ ~calls[c].inflight)

\* a call cancelled while awaiting ended with the context's error
C9_Witness ==
    \E c \in Calls :
        /\ calls[c].cancelledInFlight
        /\ calls[c].pc = "Error"
        /\ calls[c].result.err = "context canceled"

=============================================================================
